---- MODULE Spec2Model ----
(***************************************************************************)
(* The payment engine of payeng: AccountStorage (accounts.rs) applies a    *)
(* stream of Input records (input.rs) to per-client Accounts, one record   *)
(* at a time, in arrival order (main.rs).                                  *)
(*                                                                         *)
(* An Option<T> is modelled as a set with at most one element: {} is None  *)
(* and {v} is Some(v).  A BTreeMap is a function whose DOMAIN is the key   *)
(* set.  An f64 amount of a record is a whole number of currency units; a  *)
(* FixedPoint is the scaled integer (units * 10^4).                        *)
(***************************************************************************)
EXTENDS Integers, FiniteSets, Sequences, TLC

VARIABLES
    accounts,    \* AccountStorage.accounts: client -> Account
    used_txids,  \* AccountStorage.used_txids
    last,        \* the record handed to handle_transaction by the latest call
    res,         \* the Result that call returned
    before       \* accounts and used_txids as they were when that call began

vars == <<accounts, used_txids, last, res, before>>

\* ---------------------------------------------------------------- bounds
MaxClient == 2
MaxTx == 3
MaxAmount == 1
MaxAvailable == 3

Clients == 1..MaxClient
TxIds == 1..MaxTx
AmountValues == (0 - 1)..MaxAmount
Types == {"Deposit", "Withdrawal", "Dispute", "Resolve", "Chargeback"}

\* ------------------------------------------------------------ FixedPoint
FPScale == 10000

\* FixedPoint::from_f64: the amount as a count of 1/10^4 units
FromF64(v) == v * FPScale

\* ----------------------------------------------------------------- Input
\* Input::valid that lets a zero amount through (>= for >)
valid_allows_zero(input) ==
    IF input.type \in {"Deposit", "Withdrawal"}
    THEN IF input.amount # {}
         THEN \A amount \in input.amount : amount >= 0
         ELSE FALSE
    ELSE input.amount = {}

\* Input::valid
valid(input) ==
    IF input.type \in {"Deposit", "Withdrawal"}
    THEN IF input.amount # {}
         THEN \A amount \in input.amount : amount > 0
         ELSE FALSE
    ELSE input.amount = {}

\* struct Input: the records the deserializer hands to the engine.  Every
\* well-formed record over the bounded ids and amounts, and the malformed
\* ones (which never get past Input::valid) for client 1 and tx 1.
Inputs ==
    {i \in [type : Types, client : Clients, tx : TxIds,
            amount : {{}} \cup {{v} : v \in AmountValues}] :
        valid(i) \/ (i.client = 1 /\ i.tx = 1)}

\* Input::amount_as_fp
amount_as_fp(input) == {FromF64(v) : v \in input.amount}

\* the value inside a Some(..)
Unwrap(opt) == CHOOSE v \in opt : TRUE

\* --------------------------------------------------------------- BTreeMap
EmptyMap == [k \in {} |-> 0]

\* BTreeMap::insert (an existing key is overwritten)
MapInsert(m, key, value) ==
    [k \in (DOMAIN m) \cup {key} |-> IF k = key THEN value ELSE m[k]]

\* ---------------------------------------------------------------- Account
\* DisputeState::new
DisputeState_new == "Started"

\* Account::new
Account_new ==
    [available |-> FromF64(0), held |-> FromF64(0), locked |-> FALSE,
     disputes |-> EmptyMap, tx_history |-> EmptyMap]

\* Account::total that leaves the held funds out
total_available_only(acc) == acc.available

\* Account::total
total(acc) == acc.held + acc.available

\* Account::lock that forgets to set the flag
lock_noop(acc) == acc

\* Account::lock
lock(acc) == [acc EXCEPT !.locked = TRUE]

\* Account::deposit that assigns the amount instead of adding it
deposit_assign(acc, amount) == [acc EXCEPT !.available = amount]

\* Account::deposit
deposit(acc, amount) == [acc EXCEPT !.available = @ + amount]

\* Account::withdraw that refuses to empty the account (> for >=)
withdraw_strict(acc, amount) ==
    IF acc.locked
    THEN [acc |-> acc, res |-> "AccountLocked"]
    ELSE IF acc.available > amount
         THEN [acc |-> [acc EXCEPT !.available = @ - amount], res |-> "Ok"]
         ELSE [acc |-> acc, res |-> "NotEnoughAvailableFunds"]

\* Account::withdraw that subtracts first and reports the overdraft without
\* putting the amount back
withdraw_no_rollback(acc, amount) ==
    IF acc.locked
    THEN [acc |-> acc, res |-> "AccountLocked"]
    ELSE IF acc.available >= amount
         THEN [acc |-> [acc EXCEPT !.available = @ - amount], res |-> "Ok"]
         ELSE [acc |-> [acc EXCEPT !.available = @ - amount],
               res |-> "NotEnoughAvailableFunds"]

\* Account::withdraw that measures the amount against the total, so that held
\* funds can be withdrawn
withdraw_counts_held(acc, amount) ==
    IF acc.locked
    THEN [acc |-> acc, res |-> "AccountLocked"]
    ELSE IF acc.available + acc.held >= amount
         THEN [acc |-> [acc EXCEPT !.available = @ - amount], res |-> "Ok"]
         ELSE [acc |-> acc, res |-> "NotEnoughAvailableFunds"]

\* Account::withdraw
withdraw(acc, amount) ==
    IF acc.locked
    THEN [acc |-> acc, res |-> "AccountLocked"]
    ELSE IF acc.available >= amount
         THEN [acc |-> [acc EXCEPT !.available = @ - amount], res |-> "Ok"]
         ELSE [acc |-> acc, res |-> "NotEnoughAvailableFunds"]

\* the guard of the subtraction in Account::chargeback
chargeback_covers(held, amount) == held <= amount

\* Account::chargeback that charges back a deposit nobody disputed
chargeback_without_dispute(acc, tx) ==
    IF tx \notin DOMAIN acc.tx_history
    THEN [acc |-> acc, res |-> "MissingTxId"]
    ELSE IF tx \notin DOMAIN acc.disputes
    THEN [acc |-> lock([acc EXCEPT !.disputes = MapInsert(@, tx, "Reimbursed")]),
          res |-> "Ok"]
    ELSE IF acc.disputes[tx] = "Started"
    THEN LET amt == amount_as_fp(acc.tx_history[tx])
             a1 == IF amt # {} /\ chargeback_covers(acc.held, Unwrap(amt))
                   THEN [acc EXCEPT !.held = @ - Unwrap(amt)]
                   ELSE acc
             a2 == [a1 EXCEPT !.disputes[tx] = "Reimbursed"]
         IN  [acc |-> lock(a2), res |-> "Ok"]
    ELSE [acc |-> acc, res |-> "DisputeAlreadyHandled"]

\* Account::chargeback that does not look at the state of the dispute
chargeback_any_state(acc, tx) ==
    IF tx \notin DOMAIN acc.tx_history
    THEN [acc |-> acc, res |-> "MissingTxId"]
    ELSE IF tx \notin DOMAIN acc.disputes
    THEN [acc |-> acc, res |-> "MissingDisputeTx"]
    ELSE LET amt == amount_as_fp(acc.tx_history[tx])
             a1 == IF amt # {} /\ chargeback_covers(acc.held, Unwrap(amt))
                   THEN [acc EXCEPT !.held = @ - Unwrap(amt)]
                   ELSE acc
             a2 == [a1 EXCEPT !.disputes[tx] = "Reimbursed"]
         IN  [acc |-> lock(a2), res |-> "Ok"]

\* Account::chargeback that locks the account before it looks at the state of
\* the dispute
chargeback_locks_first(acc, tx) ==
    IF tx \notin DOMAIN acc.tx_history
    THEN [acc |-> acc, res |-> "MissingTxId"]
    ELSE IF tx \notin DOMAIN acc.disputes
    THEN [acc |-> acc, res |-> "MissingDisputeTx"]
    ELSE IF acc.disputes[tx] = "Started"
    THEN LET amt == amount_as_fp(acc.tx_history[tx])
             a1 == IF amt # {} /\ chargeback_covers(acc.held, Unwrap(amt))
                   THEN [acc EXCEPT !.held = @ - Unwrap(amt)]
                   ELSE acc
             a2 == [a1 EXCEPT !.disputes[tx] = "Reimbursed"]
         IN  [acc |-> lock(a2), res |-> "Ok"]
    ELSE [acc |-> lock(acc), res |-> "DisputeAlreadyHandled"]

\* Account::chargeback
chargeback(acc, tx) ==
    IF tx \notin DOMAIN acc.tx_history
    THEN [acc |-> acc, res |-> "MissingTxId"]
    ELSE IF tx \notin DOMAIN acc.disputes
    THEN [acc |-> acc, res |-> "MissingDisputeTx"]
    ELSE IF acc.disputes[tx] = "Started"
    THEN LET amt == amount_as_fp(acc.tx_history[tx])
             a1 == IF amt # {} /\ chargeback_covers(acc.held, Unwrap(amt))
                   THEN [acc EXCEPT !.held = @ - Unwrap(amt)]
                   ELSE acc
             a2 == [a1 EXCEPT !.disputes[tx] = "Reimbursed"]
         IN  [acc |-> lock(a2), res |-> "Ok"]
    ELSE [acc |-> acc, res |-> "DisputeAlreadyHandled"]

\* Account::resolve that releases the held funds without crediting available
resolve_no_credit(acc, tx) ==
    IF tx \notin DOMAIN acc.tx_history
    THEN [acc |-> acc, res |-> "MissingTxId"]
    ELSE IF tx \notin DOMAIN acc.disputes
    THEN [acc |-> acc, res |-> "MissingDisputeTx"]
    ELSE IF acc.disputes[tx] = "Started"
    THEN LET amt == amount_as_fp(acc.tx_history[tx])
         IN  IF amt # {}
             THEN [acc |-> [acc EXCEPT !.held = @ - Unwrap(amt),
                                      !.disputes[tx] = "Resolved"],
                   res |-> "Ok"]
             ELSE [acc |-> acc, res |-> "InvalidTx"]
    ELSE [acc |-> acc, res |-> "DisputeAlreadyHandled"]

\* Account::resolve that does not look at the state of the dispute
resolve_any_state(acc, tx) ==
    IF tx \notin DOMAIN acc.tx_history
    THEN [acc |-> acc, res |-> "MissingTxId"]
    ELSE IF tx \notin DOMAIN acc.disputes
    THEN [acc |-> acc, res |-> "MissingDisputeTx"]
    ELSE LET amt == amount_as_fp(acc.tx_history[tx])
         IN  IF amt # {}
             THEN LET heldres == acc.held - Unwrap(amt)
                  IN  [acc |-> [acc EXCEPT !.held = heldres,
                                           !.available = @ + Unwrap(amt),
                                           !.disputes[tx] = "Resolved"],
                       res |-> "Ok"]
             ELSE [acc |-> acc, res |-> "InvalidTx"]

\* Account::resolve
resolve(acc, tx) ==
    IF tx \notin DOMAIN acc.tx_history
    THEN [acc |-> acc, res |-> "MissingTxId"]
    ELSE IF tx \notin DOMAIN acc.disputes
    THEN [acc |-> acc, res |-> "MissingDisputeTx"]
    ELSE IF acc.disputes[tx] = "Started"
    THEN LET amt == amount_as_fp(acc.tx_history[tx])
         IN  IF amt # {}
             THEN LET heldres == acc.held - Unwrap(amt)
                  IN  [acc |-> [acc EXCEPT !.held = heldres,
                                           !.available = @ + Unwrap(amt),
                                           !.disputes[tx] = "Resolved"],
                       res |-> "Ok"]
             ELSE [acc |-> acc, res |-> "InvalidTx"]
    ELSE [acc |-> acc, res |-> "DisputeAlreadyHandled"]

\* Account::dispute that refuses to hold more than is available
dispute_needs_funds(acc, tx) ==
    IF tx \notin DOMAIN acc.tx_history
    THEN [acc |-> acc, res |-> "MissingTxId"]
    ELSE IF acc.tx_history[tx].type = "Deposit"
    THEN IF tx \in DOMAIN acc.disputes
         THEN [acc |-> acc, res |-> "DisputeAlreadyExist"]
         ELSE LET amt == amount_as_fp(acc.tx_history[tx])
              IN  IF amt = {}
                  THEN [acc |-> acc, res |-> "InvalidTxForDispute"]
                  ELSE IF acc.available < Unwrap(amt)
                  THEN [acc |-> acc, res |-> "NotEnoughAvailableFunds"]
                  ELSE [acc |-> [acc EXCEPT
                                   !.disputes = MapInsert(@, tx, "Started"),
                                   !.available = @ - Unwrap(amt),
                                   !.held = @ + Unwrap(amt)],
                        res |-> "Ok"]
    ELSE [acc |-> acc, res |-> "InvalidTxForDispute"]

\* Account::dispute that silently ignores an id it does not know
dispute_ignores_unknown(acc, tx) ==
    IF tx \notin DOMAIN acc.tx_history
    THEN [acc |-> acc, res |-> "Ok"]
    ELSE IF acc.tx_history[tx].type = "Deposit"
    THEN IF tx \in DOMAIN acc.disputes
         THEN [acc |-> acc, res |-> "DisputeAlreadyExist"]
         ELSE LET amt == amount_as_fp(acc.tx_history[tx])
              IN  IF amt = {}
                  THEN [acc |-> acc, res |-> "InvalidTxForDispute"]
                  ELSE [acc |-> [acc EXCEPT
                                   !.disputes = MapInsert(@, tx, "Started"),
                                   !.available = @ - Unwrap(amt),
                                   !.held = @ + Unwrap(amt)],
                        res |-> "Ok"]
    ELSE [acc |-> acc, res |-> "InvalidTxForDispute"]

\* Account::dispute that lets a resolved dispute be opened again
dispute_reopens_resolved(acc, tx) ==
    IF tx \notin DOMAIN acc.tx_history
    THEN [acc |-> acc, res |-> "MissingTxId"]
    ELSE IF acc.tx_history[tx].type = "Deposit"
    THEN IF tx \in DOMAIN acc.disputes /\ acc.disputes[tx] # "Resolved"
         THEN [acc |-> acc, res |-> "DisputeAlreadyExist"]
         ELSE LET amt == amount_as_fp(acc.tx_history[tx])
              IN  IF amt = {}
                  THEN [acc |-> acc, res |-> "InvalidTxForDispute"]
                  ELSE [acc |-> [acc EXCEPT
                                   !.disputes = MapInsert(@, tx, "Started"),
                                   !.available = @ - Unwrap(amt),
                                   !.held = @ + Unwrap(amt)],
                        res |-> "Ok"]
    ELSE [acc |-> acc, res |-> "InvalidTxForDispute"]

\* Account::dispute
dispute(acc, tx) ==
    IF tx \notin DOMAIN acc.tx_history
    THEN [acc |-> acc, res |-> "MissingTxId"]
    ELSE IF acc.tx_history[tx].type = "Deposit"
    THEN IF tx \in DOMAIN acc.disputes
         THEN [acc |-> acc, res |-> "DisputeAlreadyExist"]
         ELSE LET amt == amount_as_fp(acc.tx_history[tx])
              IN  IF amt = {}
                  THEN [acc |-> acc, res |-> "InvalidTxForDispute"]
                  ELSE [acc |-> [acc EXCEPT
                                   !.disputes = MapInsert(@, tx, DisputeState_new),
                                   !.available = @ - Unwrap(amt),
                                   !.held = @ + Unwrap(amt)],
                        res |-> "Ok"]
    ELSE [acc |-> acc, res |-> "InvalidTxForDispute"]

\* Account::handle_transaction that retains a successful withdrawal in the
\* history as it does a deposit
Account_handle_transaction_keeps_withdrawals(acc, transaction) ==
    IF ~valid(transaction)
    THEN [acc |-> acc, res |-> "InvalidTx"]
    ELSE IF acc.locked
    THEN [acc |-> acc, res |-> "AccountLocked"]
    ELSE CASE transaction.type = "Deposit" ->
                LET amount == Unwrap(amount_as_fp(transaction))
                    a1 == deposit(acc, amount)
                IN  [acc |-> [a1 EXCEPT !.tx_history =
                                  MapInsert(@, transaction.tx, transaction)],
                     res |-> "Ok"]
           [] transaction.type = "Withdrawal" ->
                LET r == withdraw(acc, Unwrap(amount_as_fp(transaction)))
                IN  IF r.res = "Ok"
                    THEN [acc |-> [r.acc EXCEPT !.tx_history =
                                     MapInsert(@, transaction.tx, transaction)],
                          res |-> "Ok"]
                    ELSE r
           [] transaction.type = "Dispute" -> dispute(acc, transaction.tx)
           [] transaction.type = "Resolve" -> resolve(acc, transaction.tx)
           [] transaction.type = "Chargeback" -> chargeback(acc, transaction.tx)

\* Account::handle_transaction that does not look at the lock before it
\* dispatches on the type
Account_handle_transaction_ignores_lock(acc, transaction) ==
    IF ~valid(transaction)
    THEN [acc |-> acc, res |-> "InvalidTx"]
    ELSE CASE transaction.type = "Deposit" ->
                LET amount == Unwrap(amount_as_fp(transaction))
                    a1 == deposit(acc, amount)
                IN  [acc |-> [a1 EXCEPT !.tx_history =
                                  MapInsert(@, transaction.tx, transaction)],
                     res |-> "Ok"]
           [] transaction.type = "Withdrawal" ->
                withdraw(acc, Unwrap(amount_as_fp(transaction)))
           [] transaction.type = "Dispute" -> dispute(acc, transaction.tx)
           [] transaction.type = "Resolve" -> resolve(acc, transaction.tx)
           [] transaction.type = "Chargeback" -> chargeback(acc, transaction.tx)

\* Account::handle_transaction
Account_handle_transaction(acc, transaction) ==
    IF ~valid(transaction)
    THEN [acc |-> acc, res |-> "InvalidTx"]
    ELSE IF acc.locked
    THEN [acc |-> acc, res |-> "AccountLocked"]
    ELSE CASE transaction.type = "Deposit" ->
                LET amount == Unwrap(amount_as_fp(transaction))
                    a1 == deposit(acc, amount)
                IN  [acc |-> [a1 EXCEPT !.tx_history =
                                  MapInsert(@, transaction.tx, transaction)],
                     res |-> "Ok"]
           [] transaction.type = "Withdrawal" ->
                withdraw(acc, Unwrap(amount_as_fp(transaction)))
           [] transaction.type = "Dispute" -> dispute(acc, transaction.tx)
           [] transaction.type = "Resolve" -> resolve(acc, transaction.tx)
           [] transaction.type = "Chargeback" -> chargeback(acc, transaction.tx)

\* --------------------------------------------------------- AccountStorage
\* AccountStorage::entry(client).or_insert(Account::new())
entry_or_insert(accs, client) ==
    IF client \in DOMAIN accs THEN accs ELSE MapInsert(accs, client, Account_new)

\* a duplicate guard scoped to the client of the record instead of global
txid_used_by_client(used, input) ==
    /\ input.type \in {"Deposit", "Withdrawal"}
    /\ input.tx \in used
    /\ input.client \in DOMAIN accounts
    /\ input.tx \in DOMAIN accounts[input.client].tx_history

\* a duplicate guard that looks at withdrawals only and lets a deposit reuse
\* an id
txid_used_withdrawal_only(used, input) ==
    input.type = "Withdrawal" /\ input.tx \in used

\* the duplicate guard of AccountStorage::handle_transaction:
\* a deposit or withdrawal whose id is in used_txids
txid_used(used, input) ==
    input.type \in {"Deposit", "Withdrawal"} /\ input.tx \in used

\* an id is never recorded as used
insert_txid_never(used, input) == used

\* used_txids once the guard has let the record through:
\* the id of a deposit or withdrawal is inserted, other kinds insert nothing
insert_txid(used, input) ==
    IF input.type \in {"Deposit", "Withdrawal"} THEN used \cup {input.tx} ELSE used

\* AccountStorage::handle_transaction that looks the account up, creating it,
\* before it checks the id against used_txids
handle_transaction_entry_first(input) ==
    /\ last' = input
    /\ before' = [accounts |-> accounts, used_txids |-> used_txids]
    /\ IF valid(input)
       THEN LET accs == entry_or_insert(accounts, input.client)
            IN  IF txid_used(used_txids, input)
                THEN /\ res' = "DuplicateTxId"
                     /\ accounts' = accs
                     /\ UNCHANGED used_txids
                ELSE LET r == Account_handle_transaction(accs[input.client], input)
                     IN  /\ used_txids' = insert_txid(used_txids, input)
                         /\ accounts' = [accs EXCEPT ![input.client] = r.acc]
                         /\ res' = r.res
       ELSE /\ res' = "MalformedInput"
            /\ UNCHANGED <<accounts, used_txids>>

\* AccountStorage::handle_transaction, called by the loop of main for the
\* next record of the input
handle_transaction(input) ==
    /\ last' = input
    /\ before' = [accounts |-> accounts, used_txids |-> used_txids]
    /\ IF valid(input)
       THEN IF txid_used(used_txids, input)
            THEN /\ res' = "DuplicateTxId"
                 /\ UNCHANGED <<accounts, used_txids>>
            ELSE LET accs == entry_or_insert(accounts, input.client)
                     r == Account_handle_transaction(accs[input.client], input)
                 IN  /\ used_txids' = insert_txid(used_txids, input)
                     /\ accounts' = [accs EXCEPT ![input.client] = r.acc]
                     /\ res' = r.res
       ELSE /\ res' = "MalformedInput"
            /\ UNCHANGED <<accounts, used_txids>>

\* the record and the result before the first record is read
NoInput == [type |-> "None", client |-> 0, tx |-> 0, amount |-> {}]

\* AccountStorage::new, before main reads the first record
Init ==
    /\ accounts = EmptyMap
    /\ used_txids = {}
    /\ last = NoInput
    /\ res = "None"
    /\ before = [accounts |-> EmptyMap, used_txids |-> {}]

Next == \E input \in Inputs : handle_transaction(input)

Spec == Init /\ [][Next]_vars

\* ------------------------------------------- an Account driven on its own
\* Account::handle_transaction called on one Account directly, as the unit
\* tests do: no validity check and no duplicate guard run before it.  The
\* balance of repeated deposits is capped at MaxAvailable units.
Account_call(input) ==
    /\ input.client \in DOMAIN accounts
    /\ (valid(input) /\ input.type = "Deposit") =>
           accounts[input.client].available + Unwrap(amount_as_fp(input))
               <= FromF64(MaxAvailable)
    /\ last' = input
    /\ before' = [accounts |-> accounts, used_txids |-> used_txids]
    /\ LET r == Account_handle_transaction(accounts[input.client], input)
       IN  /\ accounts' = [accounts EXCEPT ![input.client] = r.acc]
           /\ res' = r.res
    /\ UNCHANGED used_txids

\* let mut account = Account::new();
InitAccount ==
    /\ accounts = [c \in {1} |-> Account_new]
    /\ used_txids = {}
    /\ last = NoInput
    /\ res = "None"
    /\ before = [accounts |-> accounts, used_txids |-> {}]

NextAccount == \E input \in Inputs : Account_call(input)

SpecAccount == InitAccount /\ [][NextAccount]_vars

\* ================================================================ claims
\* The latest call, told from the record and the state it began in.

\* a record has been handed to handle_transaction
Called == last # NoInput

\* the account the record is for, as the call found it (a client not seen
\* before gets a new account)
PreAcc ==
    IF last.client \in DOMAIN before.accounts
    THEN before.accounts[last.client]
    ELSE Account_new

\* the same account when the call returned
PostAcc == accounts[last.client]

\* the record is well formed and its id, if it is a deposit or withdrawal,
\* was not used: AccountStorage passes it to the account
Delivered ==
    /\ Called
    /\ valid(last)
    /\ last.type \in {"Deposit", "Withdrawal"} => last.tx \notin before.used_txids

\* the amount of the deposit retained under the id of the record
DepositAmount == FromF64(Unwrap(PreAcc.tx_history[last.tx].amount))

\* every account but the one of the record is as the call found it
OthersUntouched ==
    \A c \in DOMAIN before.accounts :
        c # last.client => (c \in DOMAIN accounts /\ accounts[c] = before.accounts[c])

\* a chargeback has succeeded on the account
ChargedBack(acc) == \E t \in DOMAIN acc.disputes : acc.disputes[t] = "Reimbursed"

\* C1: a well-formed deposit or withdrawal whose id was already used, by any
\* client, returns DuplicateTxId; no account changes and none is created.
C1_DuplicateChangesNothing ==
    (Called /\ valid(last) /\ last.type \in {"Deposit", "Withdrawal"}
        /\ last.tx \in before.used_txids)
    => (res = "DuplicateTxId" /\ accounts = before.accounts)

\* C1 witness: the id of a deposit of one client is refused to a client that
\* has no account, and none is created for it.
C1_Witness ==
    /\ res = "DuplicateTxId"
    /\ last.type = "Deposit"
    /\ last.client \notin DOMAIN accounts
    /\ \E c \in DOMAIN accounts : last.tx \in DOMAIN accounts[c].tx_history

\* C2: a chargeback on a dispute in state Started decreases held by the amount
\* of the deposit exactly when held is at least that amount, and otherwise
\* leaves held alone; available is unchanged, the dispute becomes Reimbursed
\* and the account is locked.
C2_ChargebackTakesHeld ==
    (Delivered /\ last.type = "Chargeback" /\ ~PreAcc.locked
        /\ last.tx \in DOMAIN PreAcc.tx_history
        /\ last.tx \in DOMAIN PreAcc.disputes
        /\ PreAcc.disputes[last.tx] = "Started")
    => /\ res = "Ok"
       /\ PostAcc.held = IF PreAcc.held >= DepositAmount
                         THEN PreAcc.held - DepositAmount
                         ELSE PreAcc.held
       /\ PostAcc.available = PreAcc.available
       /\ PostAcc.disputes[last.tx] = "Reimbursed"
       /\ PostAcc.locked

\* C3 as claimed: once a chargeback has succeeded on an account, every later
\* transaction for it is rejected with AccountLocked.
C3_EveryTransactionLocked ==
    (Called /\ valid(last) /\ ChargedBack(PreAcc)) => res = "AccountLocked"

\* C3 amended: once a chargeback has succeeded on an account, every later
\* well-formed record for it is rejected and leaves the account locked and
\* unchanged: with DuplicateTxId when it is a deposit or withdrawal whose id
\* is already used, with AccountLocked otherwise.
C3_LockedRejects ==
    (Called /\ valid(last) /\ ChargedBack(PreAcc))
    => /\ res = IF last.type \in {"Deposit", "Withdrawal"}
                   /\ last.tx \in before.used_txids
                THEN "DuplicateTxId"
                ELSE "AccountLocked"
       /\ PostAcc = PreAcc
       /\ PostAcc.locked

\* C3 witness: a withdrawal with a fresh id that the funds would cover is
\* refused on an account that was charged back.
C3_Witness ==
    /\ ChargedBack(PreAcc)
    /\ last.type = "Withdrawal"
    /\ res = "AccountLocked"
    /\ PreAcc.available >= FromF64(Unwrap(last.amount))

\* C4: whenever Account::handle_transaction returns an error, the account is
\* exactly what it was before the call.
C4_ErrorChangesNothing ==
    (Called /\ res # "Ok") => accounts = before.accounts

\* C4 witness: a withdrawal is refused for lack of available funds on an
\* account that holds disputed funds.
C4_Witness ==
    /\ res = "NotEnoughAvailableFunds"
    /\ PreAcc.held > 0
    /\ total(PreAcc) >= FromF64(Unwrap(last.amount))

\* C5: a well-formed deposit or withdrawal with an unused id puts the id in
\* used_txids whatever the account then answers; a later deposit or
\* withdrawal with a used id is refused as a duplicate; no id leaves the set.
C5_IdSpentOnceDelivered ==
    /\ (Delivered /\ last.type \in {"Deposit", "Withdrawal"})
       => (res # "DuplicateTxId" /\ used_txids = before.used_txids \cup {last.tx})
    /\ (Called /\ valid(last) /\ last.type \in {"Deposit", "Withdrawal"}
          /\ last.tx \in before.used_txids)
       => res = "DuplicateTxId"
    /\ before.used_txids \subseteq used_txids

\* C5 witness: a deposit is refused as a duplicate although no deposit was
\* ever accepted and no funds exist: its id was spent by a failed withdrawal.
C5_Witness ==
    /\ res = "DuplicateTxId"
    /\ last.type = "Deposit"
    /\ \A c \in DOMAIN accounts :
          accounts[c].tx_history = EmptyMap /\ accounts[c].available = 0

\* C6: a dispute on an unlocked account against a retained deposit without a
\* dispute entry succeeds whatever is available: the amount of the deposit
\* moves from available to held, total and locked stay, and the id gets a
\* dispute entry in state Started.
C6_DisputeHolds ==
    (Delivered /\ last.type = "Dispute" /\ ~PreAcc.locked
        /\ last.tx \in DOMAIN PreAcc.tx_history
        /\ last.tx \notin DOMAIN PreAcc.disputes)
    => /\ res = "Ok"
       /\ PostAcc.available = PreAcc.available - DepositAmount
       /\ PostAcc.held = PreAcc.held + DepositAmount
       /\ total(PostAcc) = total(PreAcc)
       /\ ~PostAcc.locked
       /\ DOMAIN PostAcc.disputes = DOMAIN PreAcc.disputes \cup {last.tx}
       /\ PostAcc.disputes[last.tx] = "Started"
       /\ \A t \in DOMAIN PreAcc.disputes : PostAcc.disputes[t] = PreAcc.disputes[t]
       /\ PostAcc.tx_history = PreAcc.tx_history

\* C6 witness: the disputed deposit was withdrawn before, and available goes
\* below zero.
C6_Witness ==
    /\ last.type = "Dispute"
    /\ res = "Ok"
    /\ PreAcc.available < DepositAmount
    /\ PostAcc.available < 0

\* a dispute of id t on account acc, then a resolve of it
DisputeThenResolve(acc, t) ==
    Account_handle_transaction(
        Account_handle_transaction(
            acc, [type |-> "Dispute", client |-> 1, tx |-> t, amount |-> {}]).acc,
        [type |-> "Resolve", client |-> 1, tx |-> t, amount |-> {}])

\* C7: a resolve of a dispute in state Started moves the amount of the deposit
\* from held back to available, marks the dispute Resolved and leaves total
\* and locked as they were; a dispute followed at once by its resolve gives
\* back the available and held it started from.
C7_ResolveReleases ==
    /\ (Delivered /\ last.type = "Resolve" /\ ~PreAcc.locked
          /\ last.tx \in DOMAIN PreAcc.tx_history
          /\ last.tx \in DOMAIN PreAcc.disputes
          /\ PreAcc.disputes[last.tx] = "Started")
       => /\ res = "Ok"
          /\ PostAcc.held = PreAcc.held - DepositAmount
          /\ PostAcc.available = PreAcc.available + DepositAmount
          /\ PostAcc.disputes[last.tx] = "Resolved"
          /\ total(PostAcc) = total(PreAcc)
          /\ PostAcc.locked = PreAcc.locked
    /\ \A c \in DOMAIN accounts : \A t \in DOMAIN accounts[c].tx_history :
          (~accounts[c].locked /\ t \notin DOMAIN accounts[c].disputes)
          => LET r == DisputeThenResolve(accounts[c], t)
             IN  /\ r.res = "Ok"
                 /\ r.acc.available = accounts[c].available
                 /\ r.acc.held = accounts[c].held

\* C7 witness: a resolve gives funds back to an account whose available was
\* below zero while another dispute stays open.
C7_Witness ==
    /\ last.type = "Resolve"
    /\ res = "Ok"
    /\ PreAcc.available < 0
    /\ PostAcc.held > 0

\* C8: a well-formed withdrawal on an unlocked account succeeds exactly when
\* available covers the amount (held does not count); then available goes
\* down by the amount and held stays; otherwise it fails with
\* NotEnoughAvailableFunds and the balances stay.  Either way the history is
\* as it was.
C8_Withdraw ==
    (Delivered /\ last.type = "Withdrawal" /\ ~PreAcc.locked)
    => LET amount == FromF64(Unwrap(last.amount))
       IN  /\ (res = "Ok") <=> (PreAcc.available >= amount)
           /\ res = "Ok" => PostAcc.available = PreAcc.available - amount
           /\ res # "Ok" => (res = "NotEnoughAvailableFunds"
                             /\ PostAcc.available = PreAcc.available)
           /\ PostAcc.held = PreAcc.held
           /\ PostAcc.tx_history = PreAcc.tx_history

\* C8 witness: exactly the available funds are withdrawn from an account that
\* also holds disputed funds.
C8_Witness ==
    /\ last.type = "Withdrawal"
    /\ res = "Ok"
    /\ PreAcc.available > 0
    /\ PostAcc.available = 0
    /\ PostAcc.held > 0

\* C9: a well-formed deposit that reaches an unlocked account succeeds:
\* available goes up by the amount, held, locked and the disputes stay, and
\* the record is retained in the history of that account under its id.  On
\* a new account available and total are the amount and held is zero.
C9_Deposit ==
    (Delivered /\ last.type = "Deposit" /\ ~PreAcc.locked)
    => LET amount == FromF64(Unwrap(last.amount))
       IN  /\ res = "Ok"
           /\ PostAcc.available = PreAcc.available + amount
           /\ PostAcc.held = PreAcc.held
           /\ PostAcc.locked = PreAcc.locked
           /\ PostAcc.disputes = PreAcc.disputes
           /\ DOMAIN PostAcc.tx_history = DOMAIN PreAcc.tx_history \cup {last.tx}
           /\ PostAcc.tx_history[last.tx] = last
           /\ \A t \in DOMAIN PreAcc.tx_history :
                 t # last.tx => PostAcc.tx_history[t] = PreAcc.tx_history[t]
           /\ last.client \notin DOMAIN before.accounts
              => (PostAcc.available = amount /\ PostAcc.held = 0
                  /\ total(PostAcc) = amount)

\* C9 witness: a deposit into an account that already has funds, some of them
\* held.
C9_Witness ==
    /\ last.type = "Deposit"
    /\ res = "Ok"
    /\ PreAcc.available > 0
    /\ PreAcc.held > 0

\* C10: a dispute on an unlocked account of an id that is not in the history
\* of that account fails with MissingTxId and changes nothing.
C10_DisputeUnknown ==
    (Delivered /\ last.type = "Dispute" /\ ~PreAcc.locked
        /\ last.tx \notin DOMAIN PreAcc.tx_history)
    => /\ res = "MissingTxId"
       /\ PostAcc = PreAcc
       /\ OthersUntouched
       /\ used_txids = before.used_txids

\* C10 witness: the id disputed is that of a deposit of another client.
C10_Witness ==
    /\ last.type = "Dispute"
    /\ res = "MissingTxId"
    /\ \E c \in DOMAIN accounts :
          c # last.client /\ last.tx \in DOMAIN accounts[c].tx_history

\* C11: a dispute of an id that already has a dispute entry, Started or
\* Resolved, fails with DisputeAlreadyExist and changes nothing; an entry
\* never goes away, so a deposit is disputed at most once.
C11_DisputeOnce ==
    /\ (Delivered /\ last.type = "Dispute" /\ ~PreAcc.locked
          /\ last.tx \in DOMAIN PreAcc.disputes)
       => (res = "DisputeAlreadyExist" /\ accounts = before.accounts
           /\ used_txids = before.used_txids)
    /\ (Called /\ last.type = "Dispute" /\ res = "Ok")
       => last.tx \notin DOMAIN PreAcc.disputes
    /\ \A c \in DOMAIN before.accounts :
          DOMAIN before.accounts[c].disputes \subseteq DOMAIN accounts[c].disputes

\* C11 witness: the dispute refused is one that was resolved before.
C11_Witness ==
    /\ last.type = "Dispute"
    /\ res = "DisputeAlreadyExist"
    /\ PreAcc.disputes[last.tx] = "Resolved"

\* C12: on an unlocked account a resolve or a chargeback fails with
\* MissingTxId when the id is not in the history of the account, and with
\* MissingDisputeTx when it is a retained deposit without a dispute entry;
\* the account (balances, lock flag, disputes) stays as it was.
C12_NothingToSettle ==
    (Delivered /\ last.type \in {"Resolve", "Chargeback"} /\ ~PreAcc.locked
        /\ last.tx \notin DOMAIN PreAcc.disputes)
    => /\ res = IF last.tx \in DOMAIN PreAcc.tx_history
                THEN "MissingDisputeTx"
                ELSE "MissingTxId"
       /\ PostAcc = PreAcc
       /\ ~PostAcc.locked
       /\ OthersUntouched

\* C12 witness: a chargeback of a deposit nobody disputed leaves the account
\* unlocked and its funds available.
C12_Witness ==
    /\ last.type = "Chargeback"
    /\ res = "MissingDisputeTx"
    /\ ~PostAcc.locked
    /\ PostAcc.available > 0

\* the account of client c as the latest call found it
AccBefore(c) ==
    IF c \in DOMAIN before.accounts THEN before.accounts[c] ELSE Account_new

\* the latest call was this kind of record for client c and id t, and succeeded
Succeeded(type, c, t) ==
    last.type = type /\ last.client = c /\ last.tx = t /\ res = "Ok"

\* C13: a dispute entry is created in state Started, by a successful dispute
\* only; it leaves Started only for Resolved (a successful resolve) or for
\* Reimbursed (a successful chargeback), and then stays; no entry is removed;
\* a resolve or chargeback on an unlocked account of an entry that is not
\* Started fails with DisputeAlreadyHandled and changes nothing.
C13_DisputeLifecycle ==
    /\ \A c \in DOMAIN accounts :
          LET pre == AccBefore(c).disputes
              post == accounts[c].disputes
          IN  /\ DOMAIN pre \subseteq DOMAIN post
              /\ \A t \in (DOMAIN post) \ (DOMAIN pre) :
                    post[t] = "Started" /\ Succeeded("Dispute", c, t)
              /\ \A t \in DOMAIN pre :
                    post[t] # pre[t]
                    => /\ pre[t] = "Started"
                       /\ \/ post[t] = "Resolved" /\ Succeeded("Resolve", c, t)
                          \/ post[t] = "Reimbursed" /\ Succeeded("Chargeback", c, t)
    /\ (Delivered /\ last.type \in {"Resolve", "Chargeback"} /\ ~PreAcc.locked
          /\ last.tx \in DOMAIN PreAcc.disputes
          /\ PreAcc.disputes[last.tx] # "Started")
       => (res = "DisputeAlreadyHandled" /\ accounts = before.accounts)

\* C13 witness: a chargeback of a dispute that was resolved is refused while
\* the account holds the funds of another dispute.
C13_Witness ==
    /\ last.type = "Chargeback"
    /\ res = "DisputeAlreadyHandled"
    /\ PreAcc.disputes[last.tx] = "Resolved"
    /\ PostAcc.held > 0

\* a record that is malformed: a deposit or withdrawal without an amount or
\* with one that is not positive, or another kind that carries an amount
Malformed(input) ==
    \/ /\ input.type \in {"Deposit", "Withdrawal"}
       /\ (input.amount = {} \/ \E v \in input.amount : v <= 0)
    \/ /\ input.type \in {"Dispute", "Resolve", "Chargeback"}
       /\ input.amount # {}

\* C14: AccountStorage::handle_transaction answers MalformedInput for exactly
\* the malformed records, and such a record changes no account, creates none
\* and adds no id to used_txids.
C14_MalformedRejected ==
    Called
    => /\ (res = "MalformedInput") <=> Malformed(last)
       /\ Malformed(last)
          => (accounts = before.accounts /\ used_txids = before.used_txids)

\* C14 witness: a deposit of zero for a client without an account and with an
\* id not used, which stay so.
C14_Witness ==
    /\ res = "MalformedInput"
    /\ last.type = "Deposit"
    /\ last.amount = {0}
    /\ last.client \notin DOMAIN accounts
    /\ last.tx \notin used_txids

\* C15: an account is created unlocked, gets locked only by a successful
\* chargeback on it, and once locked stays locked.
C15_LockMonotonic ==
    \A c \in DOMAIN accounts :
        /\ c \notin DOMAIN before.accounts => ~accounts[c].locked
        /\ AccBefore(c).locked => accounts[c].locked
        /\ (accounts[c].locked /\ ~AccBefore(c).locked)
           => Succeeded("Chargeback", c, last.tx)

\* C15 witness: a chargeback locks one account while another, with funds,
\* stays unlocked.
C15_Witness ==
    /\ last.type = "Chargeback"
    /\ res = "Ok"
    /\ PostAcc.locked
    /\ ~PreAcc.locked
    /\ \E c \in DOMAIN accounts : ~accounts[c].locked /\ accounts[c].available > 0

\* C16: for every account, total() is available() plus held().
C16_TotalIsSum ==
    \A c \in DOMAIN accounts :
        total(accounts[c]) = accounts[c].available + accounts[c].held

\* C16 witness: an account whose available is below zero and whose held is
\* above, so that the total differs from both.
C16_Witness ==
    \E c \in DOMAIN accounts :
        /\ accounts[c].available < 0
        /\ accounts[c].held > 0
        /\ total(accounts[c]) = 0

\* C17: the accounts after a call are those before it and, when the record
\* was well formed and not refused as a duplicate, the one of its client,
\* whatever the account then answered; an account created by a record that
\* the account refused has zero balances; no account is removed.
C17_AccountCreation ==
    /\ DOMAIN accounts =
          DOMAIN before.accounts \cup (IF Delivered THEN {last.client} ELSE {})
    /\ (Called /\ last.client \in DOMAIN accounts
          /\ last.client \notin DOMAIN before.accounts)
       => (valid(last) /\ res # "DuplicateTxId" /\ res # "MalformedInput")
    /\ (Delivered /\ last.client \notin DOMAIN before.accounts /\ res # "Ok")
       => PostAcc = Account_new

\* C17 witness: the first record of a client is a chargeback of an id nobody
\* deposited, and it leaves an empty account behind.
C17_Witness ==
    /\ last.type = "Chargeback"
    /\ res = "MissingTxId"
    /\ last.client \notin DOMAIN before.accounts
    /\ last.client \in DOMAIN accounts
    /\ PostAcc.available = 0
    /\ PostAcc.held = 0

C19_HeldNotNegative ==
    /\ \A c \in DOMAIN accounts : accounts[c].held >= 0
    /\ (Called /\ last.type = "Resolve" /\ res = "Ok")
       => PreAcc.held - DepositAmount >= 0

\* C19 witness: a resolve releases all that was held.
C19_Witness ==
    /\ last.type = "Resolve"
    /\ res = "Ok"
    /\ PreAcc.held > 0
    /\ PostAcc.held = 0

\* the sum of the amounts of the deposits of acc with ids in ids
RECURSIVE SumAmounts(_, _)
SumAmounts(acc, ids) ==
    IF ids = {}
    THEN 0
    ELSE LET t == CHOOSE x \in ids : TRUE
         IN  FromF64(Unwrap(acc.tx_history[t].amount)) + SumAmounts(acc, ids \ {t})

\* the ids of the disputes of acc that are in state Started
OpenDisputes(acc) == {t \in DOMAIN acc.disputes : acc.disputes[t] = "Started"}

\* C20: the held balance of every account is the sum of the amounts of the
\* deposits whose dispute is in state Started.
C20_HeldIsOpenDisputes ==
    \A c \in DOMAIN accounts :
        accounts[c].held = SumAmounts(accounts[c], OpenDisputes(accounts[c]))

\* the ids retained in the history of the account of client c
HistoryKeys(c) == DOMAIN accounts[c].tx_history

\* C21: a transaction id is a key of the history of at most one account, every
\* key of a history is in used_txids, and every entry a history had before the
\* record is still there afterwards with the same deposit record, so the
\* amount retained for an id is the amount of the deposit that created it.
C21_HistoryKeysUnique ==
    /\ \A c1 \in DOMAIN accounts : \A c2 \in DOMAIN accounts :
           c1 # c2 => HistoryKeys(c1) \cap HistoryKeys(c2) = {}
    /\ \A c \in DOMAIN accounts : HistoryKeys(c) \subseteq used_txids
    /\ \A c \in DOMAIN before.accounts :
           \A t \in DOMAIN before.accounts[c].tx_history :
               /\ c \in DOMAIN accounts
               /\ t \in HistoryKeys(c)
               /\ accounts[c].tx_history[t] = before.accounts[c].tx_history[t]
    /\ \A c \in DOMAIN accounts : \A t \in HistoryKeys(c) :
           /\ accounts[c].tx_history[t].type = "Deposit"
           /\ accounts[c].tx_history[t].tx = t
           /\ accounts[c].tx_history[t].client = c

\* C21 witness: two accounts hold a history each, and a deposit naming an id
\* retained by the other client's account is turned away as a duplicate.
C21_Witness ==
    /\ last.type = "Deposit"
    /\ res = "DuplicateTxId"
    /\ \E c \in DOMAIN accounts :
           /\ c # last.client
           /\ last.tx \in HistoryKeys(c)
    /\ last.client \in DOMAIN accounts
    /\ HistoryKeys(last.client) # {}

\* the ids of the disputes of acc that are in state Started or Reimbursed
ActiveDisputes(acc) ==
    {t \in DOMAIN acc.disputes : acc.disputes[t] \in {"Started", "Reimbursed"}}

\* C22: an account none of whose disputes is Started or Reimbursed has
\* available >= 0, so available is negative only with such a dispute; and a
\* withdrawal never makes available negative: one that succeeds leaves it
\* >= 0 and one that is refused leaves it as it was.
C22_AvailableNegativeOnlyDisputed ==
    /\ \A c \in DOMAIN accounts :
           ActiveDisputes(accounts[c]) = {} => accounts[c].available >= 0
    /\ (Delivered /\ last.type = "Withdrawal")
       => /\ res = "Ok" => PostAcc.available >= 0
          /\ res # "Ok" => PostAcc.available = PreAcc.available
          /\ PreAcc.available >= 0 => PostAcc.available >= 0

\* C22 witness: a dispute of a deposit already withdrawn had made available
\* negative, and resolving it, the account's only dispute, brings available
\* back to a non-negative value.
C22_Witness ==
    /\ last.type = "Resolve"
    /\ res = "Ok"
    /\ PreAcc.available < 0
    /\ ActiveDisputes(PreAcc) # {}
    /\ ActiveDisputes(PostAcc) = {}
    /\ PostAcc.available >= 0

\* the clients whose account was locked before the record
LockedBefore == {c \in DOMAIN before.accounts : before.accounts[c].locked}

\* C23: an account that was locked before a record is the same after it,
\* available, held, history, disputes and lock alike, whichever client the
\* record names; and while another client's account is locked, a record
\* delivered to an unlocked account is not turned away as locked: a deposit
\* is credited and retained, a covered withdrawal is debited.
C23_LockedFrozen ==
    /\ \A c \in LockedBefore :
           /\ c \in DOMAIN accounts
           /\ accounts[c] = before.accounts[c]
    /\ (Delivered /\ LockedBefore \ {last.client} # {} /\ ~PreAcc.locked)
       => /\ res # "AccountLocked"
          /\ last.type = "Deposit"
             => /\ res = "Ok"
                /\ PostAcc.available
                     = PreAcc.available + FromF64(Unwrap(last.amount))
                /\ last.tx \in DOMAIN PostAcc.tx_history
          /\ (last.type = "Withdrawal"
              /\ PreAcc.available >= FromF64(Unwrap(last.amount)))
             => /\ res = "Ok"
                /\ PostAcc.available
                     = PreAcc.available - FromF64(Unwrap(last.amount))

\* C23 witness: while one client's account is locked, a deposit of another
\* client is credited to that client's own account.
C23_Witness ==
    /\ LockedBefore \ {last.client} # {}
    /\ last.type = "Deposit"
    /\ res = "Ok"
    /\ PostAcc.available > PreAcc.available
    /\ \E c \in LockedBefore : accounts[c].tx_history # EmptyMap

====
